---- MODULE Spec2Model ----
(***************************************************************************)
(* Model of src/main.py: the Telegram bot that records, per user, the      *)
(* contract addresses to track on Solana / Sui in a Firebase path          *)
(* /users/{user_id}.                                                       *)
(*                                                                         *)
(* `handlers` is the bag of handler invocations in progress.  The code of  *)
(* a handler is cut into steps at its accesses to shared state (the        *)
(* database, user_data): the transport calls and local computation around  *)
(* an access belong to the same step, and the first step of a handler is   *)
(* taken when its update is dispatched.  Under Spec invocations interleave *)
(* at those steps (bot processes sharing the database and the conversation *)
(* state); under SpecSeq an update is dispatched only when no handler is   *)
(* running, so handlers run one at a time (one dispatcher thread).  A      *)
(* handler that returned stays in the bag with pc = "done", showing the    *)
(* calls it made, and leaves before anything else happens.  start,         *)
(* help_command and track never read the user id.                          *)
(*                                                                         *)
(* `script` is the interpreter running main.py as a file: under SpecMain   *)
(* it executes the module statement by statement, from the imports to the  *)
(* entry block, resolving each name in the running frame and the module    *)
(* namespace.  Spec and SpecSeq start where main() has returned and the    *)
(* handlers are registered, and describe what the handlers do with the     *)
(* updates the dispatcher hands them.                                      *)
(*                                                                         *)
(* Text is a sequence of tokens; NL is the line break.                     *)
(***************************************************************************)
EXTENDS Naturals, Sequences, FiniteSets, Bags

\* ------------------------------------------------------------- bounds
MaxProcs == 2
MaxLen == 2

Users == {"u1", "u2"}
NL == "\n"
\* message texts a user sends: a single-line one and a two-line one
Addrs == {<<"ABC123">>, <<"XYZ", NL, "789">>}

\* ------------------------------------------------------------- values
None == "None"
\* callback_data of the two buttons of the /track keyboard
Networks == {"solana", "sui"}

VARIABLES
    ref,        \* db.reference("/users"): user id -> {network: [address]}
    network,    \* context.user_data['network'] of each user (None: key unset)
    handlers,   \* bag of handler invocations: position, arguments, locals, calls made
    serial,     \* TRUE: updates are dispatched one at a time
    chosen,     \* history: a button press of the user has been handled
    last,       \* history: the last database write on the user's key
                \* ("none", "set" or "delete")
    submitted,  \* history: addresses accepted per user and network since the last delete(),
                \* while every set() wrote back a record read from the current one
    lost,       \* history: since the last delete(), a set() of the user's record
                \* overwrote a record other than the one its handler had read
    used,       \* history, kept while handlers run one at a time: the network under
                \* which text messages of the user were accepted since their last
                \* button press (None: under none)
    script      \* the interpreter running main.py: next line, namespaces, environment,
                \* the handlers registered with the dispatcher, polling, fault

vars == <<ref, network, handlers, serial, chosen, last, submitted, lost, used, script>>

\* ------------------------------------------------------------- pure helpers
EmptyRecord == [n \in {} |-> <<>>]

\* a handler invocation: `before` and `used` are history (the last database
\* write on the user's key before the handler's own, and used[u] when the
\* text message was dispatched), the other fields are the handler's
Invocation(h, u, d, t) ==
    [pc |-> h, handler |-> h, user_id |-> u, data |-> d, text |-> t,
     network |-> None, user_data |-> <<>>, out |-> <<>>, before |-> "none",
     used |-> None]

RECURSIVE Join(_, _)
\* sep.join(seqs) on token sequences
Join(seqs, sep) ==
    IF Len(seqs) = 0 THEN <<>>
    ELSE IF Len(seqs) = 1 THEN seqs[1]
    ELSE seqs[1] \o sep \o Join(Tail(seqs), sep)

\* str.capitalize() on the two callback data strings
Capitalize(s) ==
    CASE s = "solana" -> "Solana"
      [] s = "sui" -> "Sui"
      [] OTHER -> s

\* as Falsy, had line 75 been `if network == ""`
FalsyEmptyOnly(n) == n = ""

\* Python truthiness of user_data.get('network')
Falsy(n) == n = None \/ n = ""

\* ------------------------------------------------------------- database
\* ref.child(u).get(): <<>> for None, <<record>> otherwise
DbGet(db, u) == IF u \in DOMAIN db THEN <<db[u]>> ELSE <<>>

\* ref.child(u).set(v): full overwrite of the value at the key
DbSet(db, u, v) == [k \in DOMAIN db \cup {u} |-> IF k = u THEN v ELSE db[k]]

\* as DbDelete, had line 107 been ref.delete()
DbDeleteAll(db, u) == [k \in {} |-> EmptyRecord]

\* as DbDelete, had line 107 been ref.child(u).get()
DbDeleteNothing(db, u) == db

\* as DbDelete, had line 107 deleted ref.child(u).child("solana")
DbDeleteChild(db, u) ==
    [k \in DOMAIN db |->
        IF k = u THEN [n \in DOMAIN db[k] \ {"solana"} |-> db[k][n]] ELSE db[k]]

\* as DbDelete, had line 107 been ref.child(u).set({}) on a store that keeps {}
DbDeleteEmpty(db, u) ==
    [k \in DOMAIN db \cup {u} |-> IF k = u THEN EmptyRecord ELSE db[k]]

\* ref.child(u).delete(): the key is removed; a no-op when it is absent
DbDelete(db, u) == [k \in DOMAIN db \ {u} |-> db[k]]

\* `get() or {}`
OrEmpty(opt) ==
    IF Len(opt) = 0 \/ DOMAIN opt[1] = {} THEN EmptyRecord ELSE opt[1]

\* as SetDefaultAppend, had line 81 been user_data.setdefault(n, [])
SetDefaultOnly(r, n, a) ==
    [k \in DOMAIN r \cup {n} |-> IF k \in DOMAIN r THEN r[k] ELSE <<>>]

\* as SetDefaultAppend, had line 81 been user_data.setdefault(n, []).insert(0, a)
SetDefaultInsert(r, n, a) ==
    [k \in DOMAIN r \cup {n} |->
        IF k = n THEN <<a>> \o (IF n \in DOMAIN r THEN r[n] ELSE <<>>) ELSE r[k]]

\* as SetDefaultAppend, had line 81 been user_data[n] = [a]
SetOverwrite(r, n, a) ==
    [k \in DOMAIN r \cup {n} |-> IF k = n THEN <<a>> ELSE r[k]]

\* user_data.setdefault(n, []).append(a)
SetDefaultAppend(r, n, a) ==
    [k \in DOMAIN r \cup {n} |->
        IF k = n THEN Append(IF n \in DOMAIN r THEN r[n] ELSE <<>>, a) ELSE r[k]]

\* ------------------------------------------------------------- transport
Call(op, text, markup) == [op |-> op, text |-> text, reply_markup |-> markup]

ReplyText(text) == Call("reply_text", text, <<>>)

StartText ==
    <<"Welcome to the Blockchain Tracker Bot! Use /track to monitor transactions. ",
      "Use /help for other commands.">>

HelpText ==
    <<"/start - Start the bot", NL,
      "/track - Start tracking a contract address", NL,
      "/status - View tracked addresses", NL,
      "/stop - Stop tracking a contract", NL,
      "/help - Show help message">>

Keyboard == << <<"Solana", "solana">>, <<"Sui", "sui">> >>

TrackText == <<"Which network would you like to track?">>

SelectedText(n) ==
    <<"You selected ", Capitalize(n),
      ". Please send the contract address you want to track.">>

SelectFirstText == <<"Please select a network first using /track.">>

StartedText(a, n) ==
    <<"Started tracking contract address: ">> \o a \o <<" on ", Capitalize(n), ".">>

NotTrackingText == <<"You are not tracking any contracts.">>

StoppedText == <<"Stopped tracking all contracts.">>

\* the orders in which a dict's items() may come back from the database
Orders(r) ==
    {o \in [1..Cardinality(DOMAIN r) -> DOMAIN r] :
        \A i, j \in DOMAIN o : i # j => o[i] # o[j]}

\* as StatusBody, had the loop of status ended after its first pass
StatusBodyFirst(r, order) ==
    IF Len(order) = 0 THEN <<>>
    ELSE <<NL, Capitalize(order[1]), ":", NL>> \o Join(r[order[1]], <<NL>>) \o <<NL>>

RECURSIVE StatusBody(_, _)
\* the loop of status over user_data.items(), taken in `order`
StatusBody(r, order) ==
    IF Len(order) = 0 THEN <<>>
    ELSE <<NL, Capitalize(order[1]), ":", NL>>
         \o Join(r[order[1]], <<NL>>) \o <<NL>>
         \o StatusBody(r, Tail(order))

StatusMessage(r, order) ==
    <<"Currently tracked contracts:", NL>> \o StatusBody(r, order)

\* `if not user_data` in status
NotUserData(opt) == Len(opt) = 0 \/ DOMAIN opt[1] = {}

\* ------------------------------------------------------------- the script
\* script.pc: the line of main.py the interpreter executes next; Exit when the
\* interpreter has left the file
Exit == 0

\* line 127: the end of the body of main, where it returns None
EndOfMain == 127

\* the environment variable main() reads (line 112)
EnvNames == {"TELEGRAM_TOKEN"}

\* the statements of the module before the entry block, by their first line
TopLines == <<8, 9, 10, 11, 12, 13, 14, 15, 18, 21, 24, 27, 28, 29,
              32, 39, 49, 60, 70, 88, 104, 110>>

\* the statements of the body of main
MainLines == <<112, 113, 116, 117, 118, 119, 120, 123, 126>>

Lines(seq) == {seq[i] : i \in DOMAIN seq}

\* the line executed after line l of the statement list seq, `last` after its end
Following(seq, l, after) ==
    LET i == CHOOSE j \in DOMAIN seq : seq[j] = l
    IN IF i = Len(seq) THEN after ELSE seq[i + 1]

\* the names the statement at line l binds in the namespace it runs in
Binds(l) ==
    CASE l = 8 -> {"Update", "InlineKeyboardButton", "InlineKeyboardMarkup"}
      [] l = 9 -> {"Updater", "CommandHandler", "CallbackQueryHandler",
                   "CallbackContext", "MessageHandler", "Filters"}
      [] l = 10 -> {"logging"}
      [] l = 11 -> {"firebase_admin"}
      [] l = 12 -> {"credentials", "db"}
      [] l = 13 -> {"os"}
      [] l = 14 -> {"keep_alive"}
      [] l = 15 -> {"load_dotenv"}
      [] l = 24 -> {"logger"}
      [] l = 27 -> {"cred"}
      [] l = 29 -> {"ref"}
      [] l = 32 -> {"start"}
      [] l = 39 -> {"help_command"}
      [] l = 49 -> {"track"}
      [] l = 60 -> {"handle_network_selection"}
      [] l = 70 -> {"handle_contract_address"}
      [] l = 88 -> {"status"}
      [] l = 104 -> {"stop"}
      [] l = 110 -> {"main"}
      [] l = 112 -> {"updater"}
      [] l = 113 -> {"dispatcher"}
      [] OTHER -> {}

\* the callback line l of main registers
Callback(l) ==
    CASE l = 116 -> "start"
      [] l = 117 -> "help_command"
      [] l = 118 -> "track"
      [] l = 119 -> "status"
      [] l = 120 -> "stop"
      [] l = 123 -> "handle_network_selection"
      [] l = 126 -> "handle_contract_address"
      [] OTHER -> None

\* the names the statement at line l reads (a def reads its annotations)
Uses(l) ==
    CASE l = 18 -> {"load_dotenv"}
      [] l \in {21, 24} -> {"logging"}
      [] l = 27 -> {"credentials"}
      [] l = 28 -> {"firebase_admin", "cred", "os"}
      [] l = 29 -> {"db"}
      [] l \in {32, 39, 49, 60, 70, 88, 104} -> {"Update", "CallbackContext"}
      [] l = 112 -> {"Updater", "os"}
      [] l = 113 -> {"updater"}
      [] l \in {116, 117, 118, 119, 120} -> {"dispatcher", "CommandHandler", Callback(l)}
      [] l = 123 -> {"dispatcher", "CallbackQueryHandler", Callback(l)}
      [] l = 126 -> {"dispatcher", "MessageHandler", "Filters", Callback(l)}
      [] l = 129 -> {"keep_alive"}
      [] l \in {130, 136} -> {"main"}
      [] l \in {132, 133} -> {"updater"}
      [] OTHER -> {}

\* the handler object line l of main passes to dispatcher.add_handler
Handler(l) ==
    CASE l \in {116, 117, 118, 119, 120} ->
            [handler |-> "CommandHandler",
             on |-> CASE l = 116 -> "start" [] l = 117 -> "help" [] l = 118 -> "track"
                      [] l = 119 -> "status" [] OTHER -> "stop",
             callback |-> Callback(l)]
      [] l = 123 ->
            [handler |-> "CallbackQueryHandler", on |-> None, callback |-> Callback(l)]
      [] OTHER ->
            [handler |-> "MessageHandler", on |-> "Filters.text & ~Filters.command",
             callback |-> Callback(l)]

\* the interpreter as `python main.py` (name = "__main__") or an import of the
\* module starts it: `environ` holds the names set in os.environ, `dotenv`
\* those the .env file sets
Launch(name, environ, dotenv) ==
    [pc |-> 8, name |-> name, environ |-> environ, dotenv |-> dotenv,
     globals |-> {}, locals |-> {}, caller |-> Exit,
     registered |-> <<>>, polling |-> FALSE, fault |-> None]

\* name lookup: the names line script.pc reads that neither the running frame
\* nor the module namespace binds
Unbound == Uses(script.pc) \ (script.locals \cup script.globals)

\* an exception nothing catches: the traceback is printed and the interpreter exits
Raise(e) == [script EXCEPT !.pc = Exit, !.fault = e, !.locals = {}]

\* the statement at script.pc runs to its end with the effect `done`, or
\* stops at a name it cannot resolve
Execute(done) == script' = IF Unbound # {} THEN Raise("NameError") ELSE done

\* lines 8-15: the imports
import ==
    /\ script.pc \in {8, 9, 10, 11, 12, 13, 14, 15}
    /\ Execute([script EXCEPT !.pc = Following(TopLines, @, 128),
                              !.globals = @ \cup Binds(script.pc)])
    /\ UNCHANGED <<ref, network, handlers, serial, chosen, last, submitted, lost, used>>

\* line 18: load_dotenv() sets the variables of .env that os.environ lacks
load_dotenv ==
    /\ script.pc = 18
    /\ Execute([script EXCEPT !.pc = Following(TopLines, @, 128),
                              !.environ = @ \cup script.dotenv])
    /\ UNCHANGED <<ref, network, handlers, serial, chosen, last, submitted, lost, used>>

\* lines 21-29: logging and the Firebase reference
setup ==
    /\ script.pc \in {21, 24, 27, 28, 29}
    /\ Execute([script EXCEPT !.pc = Following(TopLines, @, 128),
                              !.globals = @ \cup Binds(script.pc)])
    /\ UNCHANGED <<ref, network, handlers, serial, chosen, last, submitted, lost, used>>

\* lines 32-110: each def binds its function in the module namespace
def ==
    /\ script.pc \in {32, 39, 49, 60, 70, 88, 104, 110}
    /\ Execute([script EXCEPT !.pc = Following(TopLines, @, 128),
                              !.globals = @ \cup Binds(script.pc)])
    /\ UNCHANGED <<ref, network, handlers, serial, chosen, last, submitted, lost, used>>

\* lines 128 and 135: if __name__ == "__main__"
if_name_main ==
    /\ script.pc \in {128, 135}
    /\ script' = [script EXCEPT !.pc =
                    IF script.name = "__main__" THEN @ + 1
                    ELSE IF @ = 128 THEN 135 ELSE Exit]
    /\ UNCHANGED <<ref, network, handlers, serial, chosen, last, submitted, lost, used>>

\* line 129: keep_alive() returns
keep_alive ==
    /\ script.pc = 129
    /\ Execute([script EXCEPT !.pc = 130])
    /\ UNCHANGED <<ref, network, handlers, serial, chosen, last, submitted, lost, used>>

\* lines 130 and 136: main() is called, with a new frame for its locals
call_main ==
    /\ script.pc \in {130, 136}
    /\ Execute([script EXCEPT !.pc = 112, !.caller = script.pc, !.locals = {}])
    /\ UNCHANGED <<ref, network, handlers, serial, chosen, last, submitted, lost, used>>

\* line 112: updater = Updater(os.getenv("TELEGRAM_TOKEN")); Updater raises
\* ValueError when it is given neither a token nor a bot
main_Updater ==
    /\ script.pc = 112
    /\ Execute(IF "TELEGRAM_TOKEN" \in script.environ
               THEN [script EXCEPT !.pc = 113, !.locals = @ \cup Binds(112)]
               ELSE Raise("ValueError"))
    /\ UNCHANGED <<ref, network, handlers, serial, chosen, last, submitted, lost, used>>

\* line 113: dispatcher = updater.dispatcher
main_dispatcher ==
    /\ script.pc = 113
    /\ Execute([script EXCEPT !.pc = 116, !.locals = @ \cup Binds(113)])
    /\ UNCHANGED <<ref, network, handlers, serial, chosen, last, submitted, lost, used>>

\* lines 116-126: dispatcher.add_handler(...)
main_add_handler ==
    /\ script.pc \in {116, 117, 118, 119, 120, 123, 126}
    /\ Execute([script EXCEPT !.pc = Following(MainLines, @, EndOfMain),
                              !.registered = Append(@, Handler(script.pc))])
    /\ UNCHANGED <<ref, network, handlers, serial, chosen, last, submitted, lost, used>>

\* main returns to the line after its call; its frame, and with it the names
\* updater and dispatcher, is gone
main_return ==
    /\ script.pc = EndOfMain
    /\ script' = [script EXCEPT !.pc = IF script.caller = 130 THEN 132 ELSE Exit,
                                !.locals = {}]
    /\ UNCHANGED <<ref, network, handlers, serial, chosen, last, submitted, lost, used>>

\* lines 132-133: updater.start_polling() starts the receive loop and
\* updater.idle() blocks in it
start_polling ==
    /\ script.pc = 132
    /\ Execute([script EXCEPT !.pc = 133, !.polling = TRUE])
    /\ UNCHANGED <<ref, network, handlers, serial, chosen, last, submitted, lost, used>>

\* the seven handlers in the order main registers them
AllHandlers == [i \in 1..7 |-> Handler(MainLines[i + 2])]

\* the script main.py after main() has returned: the handlers are registered
AfterMain ==
    [Launch("__main__", EnvNames, {}) EXCEPT
        !.pc = 132, !.globals = UNION {Binds(l) : l \in Lines(TopLines)},
        !.caller = 130, !.registered = AllHandlers]

\* ------------------------------------------------------------- state
NoAddresses == [n \in Networks |-> <<>>]

Start ==
    /\ ref = [u \in {} |-> EmptyRecord]
    /\ network = [u \in Users |-> None]
    /\ handlers = EmptyBag
    /\ chosen = [u \in Users |-> FALSE]
    /\ last = [u \in Users |-> "none"]
    /\ submitted = [u \in Users |-> NoAddresses]
    /\ lost = [u \in Users |-> FALSE]
    /\ used = [u \in Users |-> None]

Init == Start /\ serial = FALSE /\ script = AfterMain

InitSeq == Start /\ serial = TRUE /\ script = AfterMain

\* the interpreter starts on main.py, run as the program or imported
InitMain ==
    /\ Start
    /\ serial = TRUE
    /\ \E name \in {"__main__", "main"}, environ \in SUBSET EnvNames,
          dotenv \in SUBSET EnvNames : script = Launch(name, environ, dotenv)

RECURSIVE SumLen(_, _)
\* number of addresses in the lists of r under the keys ns
SumLen(r, ns) ==
    IF ns = {} THEN 0
    ELSE LET n == CHOOSE x \in ns : TRUE IN Len(r[n]) + SumLen(r, ns \ {n})

Count(r) == SumLen(r, DOMAIN r)

Invocations == BagToSet(handlers)

Max(a, b) == IF a < b THEN b ELSE a

RECURSIVE MaxOver(_, _)
\* the largest Count among the records the handlers hs hold
MaxOver(hs, m) ==
    IF hs = {} THEN m
    ELSE LET h == CHOOSE x \in hs : TRUE
         IN MaxOver(hs \ {h}, Max(m, Count(h.user_data[1])))

\* the most addresses user u has, in the database or in a record a handler has read
Held(u) ==
    MaxOver({h \in Invocations : h.pc = "hca_set" /\ h.user_id = u},
            IF u \in DOMAIN ref THEN Count(ref[u]) ELSE 0)

RECURSIVE Total(_)
Total(us) ==
    IF us = {} THEN 0
    ELSE LET u == CHOOSE x \in us : TRUE IN Held(u) + Total(us \ {u})

RECURSIVE Copies(_)
\* handlers that accepted a text message and have not written yet
Copies(hs) ==
    IF hs = {} THEN 0
    ELSE LET h == CHOOSE x \in hs : TRUE IN CopiesIn(h, handlers) + Copies(hs \ {h})

Accepted == Copies({h \in Invocations : h.pc \in {"hca_get", "hca_set"}})

\* room for one more address: no later write takes the users past MaxLen addresses
Room == Total(Users) + Accepted < MaxLen

\* ------------------------------------------------------------- actions
\* every handler that returned has left
Ready == \A h \in Invocations : h.pc # "done"

\* the dispatcher can hand the next update to a handler
Free ==
    /\ Ready
    /\ BagCardinality(handlers) < MaxProcs
    /\ serial => handlers = EmptyBag

Enter(h) == handlers (+) SetToBag({h})

Become(h, g) == (handlers (-) SetToBag({h})) (+) SetToBag({g})

\* the handler made its last transport calls and returned
Finish(h, calls) == [h EXCEPT !.pc = "done", !.out = @ \o calls]

\* a returned handler leaves
Return(h) ==
    /\ h.pc = "done"
    /\ handlers' = handlers (-) SetToBag({h})
    /\ UNCHANGED <<ref, network, serial, chosen, last, submitted, lost, used, script>>

start ==
    /\ Free
    /\ handlers' = Enter(Finish(Invocation("start", "none", None, <<>>),
                                <<ReplyText(StartText)>>))
    /\ UNCHANGED <<ref, network, serial, chosen, last, submitted, lost, used, script>>

help_command ==
    /\ Free
    /\ handlers' = Enter(Finish(Invocation("help_command", "none", None, <<>>),
                                <<ReplyText(HelpText)>>))
    /\ UNCHANGED <<ref, network, serial, chosen, last, submitted, lost, used, script>>

track ==
    /\ Free
    /\ handlers' = Enter(Finish(Invocation("track", "none", None, <<>>),
                                <<Call("reply_text", TrackText, Keyboard)>>))
    /\ UNCHANGED <<ref, network, serial, chosen, last, submitted, lost, used, script>>

\* the transport calls of handle_network_selection (lines 63, 66-68)
SelectionCalls(d) ==
    <<Call("answer", <<>>, <<>>), Call("edit_message_text", SelectedText(d), <<>>)>>

\* as SetNetwork, had line 65 been context.bot_data['network'] = network
SetNetworkAll(nw, u, d) == [v \in DOMAIN nw |-> d]

\* as SetNetwork, had line 65 been context.user_data.setdefault('network', network)
SetNetworkOnce(nw, u, d) == [nw EXCEPT ![u] = IF @ = None THEN d ELSE @]

\* line 65: context.user_data['network'] = network
SetNetwork(nw, u, d) == [nw EXCEPT ![u] = d]

handle_network_selection ==
    /\ Free
    /\ \E u \in Users, d \in Networks :
        /\ network' = SetNetwork(network, u, d)
        /\ chosen' = [chosen EXCEPT ![u] = TRUE]
        /\ used' = [used EXCEPT ![u] = None]
        /\ handlers' = Enter(Finish(Invocation("handle_network_selection", u, d, <<>>),
                                    SelectionCalls(d)))
    /\ UNCHANGED <<ref, serial, last, submitted, lost, script>>

\* as GuardCalls, had the reply of line 76 stood outside the `if`
GuardCallsAlways(n) == <<ReplyText(SelectFirstText)>>

\* lines 75-77: the reply when no network is selected
GuardCalls(n) == IF Falsy(n) THEN <<ReplyText(SelectFirstText)>> ELSE <<>>

\* lines 72-77: read the text and the selection; without a selection, reply and return
handle_contract_address ==
    /\ Free
    /\ \E u \in Users, t \in Addrs :
        LET n == network[u]
            h == Invocation("handle_contract_address", u, None, t)
        IN IF Falsy(n)
           THEN handlers' = Enter(Finish(h, GuardCalls(n))) /\ used' = used
           ELSE /\ Room
                /\ handlers' = Enter([h EXCEPT !.pc = "hca_get", !.network = n,
                                               !.out = @ \o GuardCalls(n),
                                               !.used = used[u]])
                /\ used' = IF serial THEN [used EXCEPT ![u] = n] ELSE used
    /\ UNCHANGED <<ref, network, serial, chosen, last, submitted, lost, script>>

\* line 80: user_data = ref.child(str(user_id)).get() or {}
handle_contract_address_get(h) ==
    /\ Ready
    /\ h.pc = "hca_get"
    /\ handlers' = Become(h, [h EXCEPT !.pc = "hca_set",
                                       !.user_data = <<OrEmpty(DbGet(ref, h.user_id))>>])
    /\ UNCHANGED <<ref, network, serial, chosen, last, submitted, lost, used, script>>

\* as Local, had line 81 started from {} when the record is gone by then
LocalIfStored(h) == IF h.user_id \in DOMAIN ref THEN h.user_data[1] ELSE EmptyRecord

\* as Local, had lines 80-82 run as one transaction on the current record
LocalFresh(h) == OrEmpty(DbGet(ref, h.user_id))

\* the record line 81 mutates: the local user_data read at line 80
Local(h) == h.user_data[1]

\* lines 81-86: append to the local record, write it back whole, confirm
handle_contract_address_set(h) ==
    /\ Ready
    /\ h.pc = "hca_set"
    /\ LET r == SetDefaultAppend(Local(h), h.network, h.text) IN
        /\ ref' = DbSet(ref, h.user_id, r)
        /\ handlers' = Become(h, Finish([h EXCEPT !.user_data = <<r>>,
                                                  !.before = last[h.user_id]],
                                        <<ReplyText(StartedText(h.text, h.network))>>))
        /\ last' = [last EXCEPT ![h.user_id] = "set"]
        /\ lost' = [lost EXCEPT ![h.user_id] =
              @ \/ h.user_data[1] # OrEmpty(DbGet(ref, h.user_id))]
        /\ submitted' = [submitted EXCEPT ![h.user_id] =
              IF lost'[h.user_id] THEN NoAddresses
              ELSE [@ EXCEPT ![h.network] = Append(@, h.text)]]
    /\ UNCHANGED <<network, serial, chosen, used, script>>

\* lines 93-102: the replies status may give to what get() returned
StatusCalls(opt) ==
    IF NotUserData(opt)
    THEN {<<ReplyText(NotTrackingText)>>}
    ELSE {<<ReplyText(StatusMessage(opt[1], order))>> : order \in Orders(opt[1])}

\* lines 90-102
status ==
    /\ Free
    /\ \E u \in Users : \E calls \in StatusCalls(DbGet(ref, u)) :
        handlers' = Enter(Finish([Invocation("status", u, None, <<>>)
                                    EXCEPT !.user_data = DbGet(ref, u)], calls))
    /\ UNCHANGED <<ref, network, serial, chosen, last, submitted, lost, used, script>>

\* as StopCalls, had stop answered like status when there is no record
StopCallsIfTracked(db, u) ==
    IF u \in DOMAIN db THEN <<ReplyText(StoppedText)>>
    ELSE <<ReplyText(NotTrackingText)>>

\* line 108: the confirmation of stop
StopCalls(db, u) == <<ReplyText(StoppedText)>>

\* lines 106-108
stop ==
    /\ Free
    /\ \E u \in Users :
        /\ ref' = DbDelete(ref, u)
        /\ handlers' = Enter(Finish([Invocation("stop", u, None, <<>>)
                                       EXCEPT !.before = last[u]], StopCalls(ref, u)))
        /\ last' = [last EXCEPT ![u] = "delete"]
        /\ submitted' = [submitted EXCEPT ![u] = NoAddresses]
        /\ lost' = [lost EXCEPT ![u] = FALSE]
    /\ UNCHANGED <<network, serial, chosen, used, script>>

Next ==
    \/ start
    \/ help_command
    \/ track
    \/ handle_network_selection
    \/ handle_contract_address
    \/ status
    \/ stop
    \/ \E h \in Invocations : handle_contract_address_get(h)
    \/ \E h \in Invocations : handle_contract_address_set(h)
    \/ \E h \in Invocations : Return(h)

\* handlers of concurrently dispatched updates interleave
Spec == Init /\ [][Next]_vars

\* handlers run one at a time
SpecSeq == InitSeq /\ [][Next]_vars

\* the steps of the interpreter through main.py
NextMain ==
    \/ import
    \/ load_dotenv
    \/ setup
    \/ def
    \/ if_name_main
    \/ keep_alive
    \/ call_main
    \/ main_Updater
    \/ main_dispatcher
    \/ main_add_handler
    \/ main_return
    \/ start_polling

\* the start of the program
SpecMain == InitMain /\ [][NextMain]_vars

\* ------------------------------------------------------------- properties
\* the handlers that have returned
Finished(hs) == {h \in BagToSet(hs) : h.pc = "done"}

\* the handler this step made return
JustFinished == IF Finished(handlers) = {} THEN Finished(handlers') ELSE {}

\* the invocations this step dispatched
JustEntered ==
    {h \in BagToSet(handlers') : CopiesIn(h, handlers') > CopiesIn(h, handlers)
                                 /\ h.pc \in {"done", "hca_get"}
                                 /\ Finished(handlers) = {}
                                 /\ BagCardinality(handlers') > BagCardinality(handlers)}

TwoLines == <<"XYZ", NL, "789">>

\* C1: with handlers run one at a time, the record read for a user holds, per
\* network, exactly the addresses submitted to it since the record was absent,
\* in submission order, duplicates kept; a network nothing was submitted to is
\* no key of the record, and no write ever overwrote an unread record.
C1_ReadReturnsSubmitted ==
    \A u \in Users :
        /\ ~lost[u]
        /\ IF DbGet(ref, u) = <<>>
           THEN submitted[u] = NoAddresses
           ELSE \A n \in Networks :
                  IF n \in DOMAIN DbGet(ref, u)[1]
                  THEN DbGet(ref, u)[1][n] = submitted[u][n] /\ submitted[u][n] # <<>>
                  ELSE submitted[u][n] = <<>>

\* one address on each of the two networks of a user, read back
C1_Witness ==
    serial /\ \E u \in Users :
        /\ DbGet(ref, u) # <<>>
        /\ DOMAIN ref[u] = Networks
        /\ \A n \in Networks : Len(ref[u][n]) = 1

\* C2: a text message handled for a user no button press of whom was ever
\* handled gets the 'select a network first' reply and returns at once,
\* whatever its text, and the step that dispatches it leaves the store unchanged.
C2_GuardedWithoutSelection ==
    /\ [](\A h \in Invocations :
            h.handler = "handle_contract_address" /\ ~chosen[h.user_id]
            => /\ h.pc = "done"
               /\ h.out = <<ReplyText(SelectFirstText)>>
               /\ h.user_data = <<>>)
    /\ [][\A h \in JustEntered :
            h.handler = "handle_contract_address" /\ ~chosen[h.user_id]
            => ref' = ref]_vars

C2_Witness ==
    \E h \in Invocations :
        /\ h.handler = "handle_contract_address" /\ h.pc = "done"
        /\ ~chosen[h.user_id]
        /\ h.text = TwoLines
        /\ h.out = <<ReplyText(SelectFirstText)>>

\* C3: while the last database write on a user's key is the delete of /stop,
\* reading the key yields nothing, and a /status handled then replies that the
\* user is not tracking any contracts.
C3_DeleteThenReadAbsent ==
    \A u \in Users :
        last[u] = "delete" =>
            /\ DbGet(ref, u) = <<>>
            /\ \A h \in Invocations :
                  h.handler = "status" /\ h.pc = "done" /\ h.user_id = u
                  => h.out = <<ReplyText(NotTrackingText)>>

C3_Witness ==
    \E h \in Invocations :
        /\ h.handler = "status" /\ h.pc = "done"
        /\ last[h.user_id] = "delete"
        /\ h.out = <<ReplyText(NotTrackingText)>>

\* C4: every /stop returns with the one fixed confirmation and the user's
\* record absent, and a /stop handled when the record is already absent (never
\* written, or deleted by the /stop before) leaves the whole store as it was.
C4_StopIdempotent ==
    /\ [](\A h \in Invocations :
            h.handler = "stop" /\ h.pc = "done"
            => h.out = <<ReplyText(StoppedText)>> /\ DbGet(ref, h.user_id) = <<>>)
    /\ [][\A h \in JustFinished :
            h.handler = "stop" /\ h.before # "set" => ref' = ref]_vars

\* a /stop right after a /stop of the same user
C4_Witness ==
    \E h \in Invocations :
        /\ h.handler = "stop" /\ h.pc = "done" /\ h.before = "delete"
        /\ h.out = <<ReplyText(StoppedText)>>

\* C5: a user has a key in the store only when the last write on it is the
\* set() of an accepted submission, and after /stop the key is not in the store
\* at all (not a key holding an empty mapping).
C5_RecordOnlyAfterSubmit ==
    /\ \A u \in DOMAIN ref : last[u] = "set"
    /\ \A h \in Invocations :
          h.handler = "stop" /\ h.pc = "done" => h.user_id \notin DOMAIN ref

\* /stop removed a record that a submission had created
C5_Witness ==
    \E h \in Invocations :
        /\ h.handler = "stop" /\ h.pc = "done" /\ h.before = "set"
        /\ h.user_id \notin DOMAIN ref

\* the handlers in hca_set that this step takes through lines 81-86
JustWrote ==
    {h \in BagToSet(handlers) :
        h.pc = "hca_set" /\ CopiesIn(h, handlers') < CopiesIn(h, handlers)}

IsPrefix(s, t) == Len(s) <= Len(t) /\ \A i \in 1..Len(s) : s[i] = t[i]

\* the list of a record under a key, empty when the key is missing
ListOf(r, n) == IF n \in DOMAIN r THEN r[n] ELSE <<>>

C7_LastWriteWins ==
    [][\A h \in JustWrote :
          /\ h.user_id \in DOMAIN ref'
          /\ DOMAIN ref'[h.user_id] = DOMAIN h.user_data[1] \cup {h.network}
          /\ \A n \in DOMAIN ref'[h.user_id] :
                ref'[h.user_id][n] =
                    ListOf(h.user_data[1], n)
                    \o (IF n = h.network THEN <<h.text>> ELSE <<>>)
          /\ \E g \in JustFinished :
                /\ g.user_id = h.user_id
                /\ g.out = <<ReplyText(StartedText(h.text, h.network))>>]_vars

\* two submissions of a user were confirmed since the last delete, and the
\* record holds the address of the last writer alone
C7_Witness ==
    \E h \in Invocations :
        /\ h.handler = "handle_contract_address" /\ h.pc = "done"
        /\ h.network # None
        /\ lost[h.user_id]
        /\ DbGet(ref, h.user_id) = << [n \in {h.network} |-> <<h.text>>] >>

RECURSIVE Split(_)
\* str.split("\n") on a token sequence: its lines
Split(s) ==
    IF Len(s) = 0 THEN << <<>> >>
    ELSE LET rest == Split(Tail(s))
         IN IF Head(s) = NL THEN << <<>> >> \o rest
            ELSE << <<Head(s)>> \o rest[1] >> \o Tail(rest)

RECURSIVE Flatten(_)
Flatten(ss) == IF Len(ss) = 0 THEN <<>> ELSE Head(ss) \o Flatten(Tail(ss))

\* the lines address a takes in a listing: its own lines, or one line
Rows(a, verbatim) == IF verbatim THEN Split(a) ELSE <<a>>

\* the lines of a listing of record r with its networks in `order`: the
\* heading, then per network an empty line, its name and its addresses
RECURSIVE Sections(_, _, _)
Sections(r, order, verbatim) ==
    IF Len(order) = 0 THEN <<>>
    ELSE << <<>>, <<Capitalize(order[1]), ":">> >>
         \o Flatten([i \in 1..Len(r[order[1]]) |-> Rows(r[order[1]][i], verbatim)])
         \o Sections(r, Tail(order), verbatim)

Listing(r, order, verbatim) ==
    << <<"Currently tracked contracts:">> >>
    \o Sections(r, order, verbatim) \o << <<>> >>

\* what a returned /status must have replied
StatusReplies(h, verbatim) ==
    LET opt == DbGet(ref, h.user_id) IN
    /\ Len(h.out) = 1
    /\ h.out[1].op = "reply_text"
    /\ opt = <<>> <=> h.out = <<ReplyText(NotTrackingText)>>
    /\ opt # <<>> =>
          \E order \in Orders(opt[1]) :
              Split(h.out[1].text) = Listing(opt[1], order, verbatim)

\* C8 as stated: /status replies 'not tracking' exactly when the user has no
\* record, and otherwise one message that lists each network of the record
\* followed by its addresses in stored order, one address per line.
C8_OneAddressPerLine ==
    \A h \in Invocations :
        h.handler = "status" /\ h.pc = "done" => StatusReplies(h, FALSE)

\* C8 amended: as above, but each address appears with its text verbatim, so an
\* address that contains line breaks takes as many lines as it has.
C8_AddressesVerbatim ==
    \A h \in Invocations :
        h.handler = "status" /\ h.pc = "done" => StatusReplies(h, TRUE)

\* /status of a record with both networks, one address of two lines
C8_Witness ==
    \E h \in Invocations :
        /\ h.handler = "status" /\ h.pc = "done"
        /\ DbGet(ref, h.user_id) # <<>>
        /\ DOMAIN ref[h.user_id] = Networks
        /\ \E n \in Networks : ref[h.user_id][n] = <<TwoLines>>

\* C9: with handlers run one at a time, the selection of a user is the data of
\* the last button press handled and changes in no other step; an accepted
\* text message is appended to the list of the selected network alone, and is
\* confirmed under that network.
C9_AppendsToLastChoice ==
    /\ [](\A h \in Invocations :
            h.handler = "handle_network_selection" /\ h.pc = "done"
            => network[h.user_id] = h.data)
    /\ [][\A u \in Users :
            network'[u] # network[u]
            => \E h \in JustFinished :
                  /\ h.handler = "handle_network_selection"
                  /\ h.user_id = u /\ h.data = network'[u]]_vars
    /\ [][\A h \in JustWrote :
            LET u == h.user_id
                n == network[u]
                old == OrEmpty(DbGet(ref, u))
            IN /\ u \in DOMAIN ref'
               /\ DOMAIN ref'[u] = DOMAIN old \cup {n}
               /\ ref'[u][n] = Append(ListOf(old, n), h.text)
               /\ \A m \in DOMAIN old \ {n} : ref'[u][m] = old[m]
               /\ \E g \in JustFinished :
                     g.out = <<ReplyText(<<"Started tracking contract address: ">>
                                         \o h.text \o <<" on ", Capitalize(n), ".">>)>>]_vars

\* an address confirmed under sui after an earlier one under solana
C9_Witness ==
    serial /\ \E h \in Invocations :
        /\ h.handler = "handle_contract_address" /\ h.pc = "done"
        /\ h.network = "sui" /\ network[h.user_id] = "sui"
        /\ DbGet(ref, h.user_id) # <<>>
        /\ DOMAIN ref[h.user_id] = Networks

\* a transport call that puts a message before the user (query.answer()
\* acknowledges the button press and carries none)
IsMessage(c) == c.op \in {"reply_text", "edit_message_text"}

\* C10: every handler that returned has produced exactly one message
\* (a reply, or the edited text of the selection message).
C10_ExactlyOneMessage ==
    \A h \in Invocations : h.pc = "done" => Len(SelectSeq(h.out, IsMessage)) = 1

\* an accepted text message has returned
C10_Witness ==
    \E h \in Invocations :
        /\ h.handler = "handle_contract_address" /\ h.pc = "done"
        /\ h.network # None
        /\ Len(SelectSeq(h.out, IsMessage)) = 1

\* C11: run as the program with TELEGRAM_TOKEN set, main.py registers the five
\* command handlers, the button handler and the text handler in main, and then
\* starts polling: the interpreter raises no exception and never leaves the
\* file, and once main has returned the seven handlers are registered.
C11_StartsPolling ==
    script.name = "__main__" /\ EnvNames \subseteq script.environ \cup script.dotenv
    => /\ script.fault = None
       /\ script.pc # Exit
       /\ script.pc \in {132, 133} => script.registered = AllHandlers
       /\ script.pc = 133 => script.polling

\* C12: the step that handles /start, /help, /track or /status changes neither
\* the store nor any user's selection; the step that handles a button press
\* leaves the store alone and changes no selection but that of its user; and
\* the store changes only in the write of an accepted text message or in /stop.
C12_FrameOfHandlers ==
    /\ [][\A h \in JustEntered :
            /\ h.handler \in {"start", "help_command", "track", "status"}
               => ref' = ref /\ network' = network
            /\ h.handler = "handle_network_selection"
               => /\ ref' = ref
                  /\ \A v \in Users \ {h.user_id} : network'[v] = network[v]]_vars
    /\ [][ref' # ref
          => \/ JustWrote # {}
             \/ \E h \in JustFinished : h.handler = "stop"]_vars

\* a button press of a user has been handled while the store holds a record
\* and another user has another network selected
C12_Witness ==
    \E h \in Invocations :
        /\ h.handler = "handle_network_selection" /\ h.pc = "done"
        /\ network[h.user_id] = h.data
        /\ DOMAIN ref # {}
        /\ \E v \in Users \ {h.user_id} : network[v] \in Networks \ {h.data}

\* C13: with handlers run one at a time, an accepted text message leaves the
\* selection in place: while text messages of a user were accepted under a
\* network since their last button press, that network stays selected; the
\* next text message is accepted under it, not guarded; and its write appends
\* its address to the list stored under that network, after the addresses
\* accepted before it.
C13_SelectionOutlivesSubmission ==
    /\ [](\A u \in Users : used[u] # None => network[u] = used[u])
    /\ [][\A h \in JustEntered :
            h.handler = "handle_contract_address" /\ used[h.user_id] # None
            => /\ h.pc = "hca_get"
               /\ h.network = used[h.user_id]
               /\ h.out = <<>>]_vars
    /\ [][\A h \in JustWrote :
            h.used # None /\ last[h.user_id] = "set"
            => /\ h.network = h.used
               /\ network' = network
               /\ h.user_id \in DOMAIN ref
               /\ h.network \in DOMAIN ref[h.user_id]
               /\ ref[h.user_id][h.network] # <<>>
               /\ ref'[h.user_id] =
                    [ref[h.user_id] EXCEPT ![h.network] = Append(@, h.text)]]_vars

\* one button press, then two text messages: the second was accepted with no
\* button press after the first, and the list holds both addresses
C13_Witness ==
    serial /\ \E h \in Invocations :
        /\ h.handler = "handle_contract_address" /\ h.pc = "done"
        /\ h.used # None /\ h.before = "set"
        /\ Len(ref[h.user_id][h.used]) = 2
        /\ ref[h.user_id][h.used][2] = h.text
        /\ submitted[h.user_id][h.used] = ref[h.user_id][h.used]

\* C14: with handlers run one at a time, /stop leaves every selection as it
\* was; a text message that follows an accepted one and the /stop after it,
\* with no button press since, is accepted under the network selected before,
\* and its write recreates the user's record with that network as its only key
\* and the new address as its only address.
C14_SelectionOutlivesStop ==
    /\ [][\A h \in JustFinished : h.handler = "stop" => network' = network]_vars
    /\ [][\A h \in JustEntered :
            /\ h.handler = "handle_contract_address"
            /\ used[h.user_id] # None /\ last[h.user_id] = "delete"
            => /\ h.pc = "hca_get"
               /\ h.network = used[h.user_id]
               /\ h.user_id \notin DOMAIN ref]_vars
    /\ [][\A h \in JustWrote :
            h.used # None /\ last[h.user_id] = "delete"
            => ref'[h.user_id] = [n \in {h.used} |-> <<h.text>>]]_vars

\* select, submit, /stop, then a text message with no button press in between:
\* the record holds the new address alone
C14_Witness ==
    serial /\ \E h \in Invocations :
        /\ h.handler = "handle_contract_address" /\ h.pc = "done"
        /\ h.used # None /\ h.before = "delete"
        /\ ref[h.user_id] = [n \in {h.used} |-> <<h.text>>]

\* C15: when the write of an accepted text message comes after the delete of a
\* /stop of the same user, the store holding no record of the user, it stores
\* every address of the record its handler read at line 80, each list in its
\* order, plus the new address: the addresses read before the /stop are back
\* in the store.
C15_WriteAfterStopRestores ==
    [][\A h \in JustWrote :
          last[h.user_id] = "delete"
          => /\ DbGet(ref, h.user_id) = <<>>
             /\ h.user_id \in DOMAIN ref'
             /\ \A n \in DOMAIN h.user_data[1] :
                   /\ n \in DOMAIN ref'[h.user_id]
                   /\ IsPrefix(h.user_data[1][n], ref'[h.user_id][n])
             /\ Count(ref'[h.user_id]) = Count(h.user_data[1]) + 1
             /\ ref'[h.user_id][h.network][Len(ref'[h.user_id][h.network])] = h.text]_vars

\* a /stop deleted the user's record and replied; the write that followed it
\* put an address stored before the /stop back, beside its own
C15_Witness ==
    \E h \in Invocations :
        /\ h.handler = "handle_contract_address" /\ h.pc = "done"
        /\ h.before = "delete"
        /\ DbGet(ref, h.user_id) = h.user_data
        /\ Count(ref[h.user_id]) = 2

\* C16: under any interleaving, a step changes the stored record or the
\* selection of a user only if it is the step of a handler invoked for that
\* user (the one that returns in it); the records and selections of all other
\* users stay as they were.
C16_UsersIsolated ==
    [][\A v \in Users :
          DbGet(ref', v) # DbGet(ref, v) \/ network'[v] # network[v]
          => /\ \E h \in JustFinished : h.user_id = v
             /\ \A h \in JustFinished : h.user_id = v]_vars

\* the /stop of a user deleted their record while another user, with another
\* network selected, keeps a record
C16_Witness ==
    \E h \in Invocations : \E v \in Users \ {h.user_id} :
        /\ h.handler = "stop" /\ h.pc = "done" /\ h.before = "set"
        /\ v \in DOMAIN ref
        /\ network[v] \in Networks \ {network[h.user_id]}

\* C17: every record in the store has at least one network key, and every
\* network key of it holds at least one address; so a /status that replied
\* 'not tracking' had read no record at all, not an empty one.
C17_RecordsNonEmpty ==
    /\ \A u \in DOMAIN ref :
          /\ DOMAIN ref[u] # {}
          /\ \A n \in DOMAIN ref[u] : ref[u][n] # <<>>
    /\ \A h \in Invocations :
          h.handler = "status" /\ h.pc = "done" /\ h.out = <<ReplyText(NotTrackingText)>>
          => h.user_data = <<>> /\ h.user_id \notin DOMAIN ref

\* /status of a user without a record replied 'not tracking' while another
\* user's record holds an address under each network
C17_Witness ==
    \E h \in Invocations : \E v \in DOMAIN ref :
        /\ h.handler = "status" /\ h.pc = "done"
        /\ h.out = <<ReplyText(NotTrackingText)>>
        /\ h.user_id \notin DOMAIN ref
        /\ DOMAIN ref[v] = Networks

====
